---------------------------- MODULE Spec2Model ----------------------------
(***************************************************************************)
(* A model of event_packet.py: the EventPacket class, its four            *)
(* constructors, its comparisons, its UTC offset resolution and its wire  *)
(* formatting.                                                            *)
(*                                                                         *)
(* The file as committed has three slips a parser rejects (a missing      *)
(* comma after the sample_interval_utc default at line 23, a missing      *)
(* closing parenthesis at line 220, annotations naming EventPacket inside *)
(* its own body at lines 107, 126 and 170).  The model reads every method *)
(* body as written, with those three tokens supplied and the annotations  *)
(* unevaluated; nothing else is repaired.                                 *)
(*                                                                         *)
(* Python values are tagged records [t |-> type, v |-> payload]; strings  *)
(* are sequences of one-character strings so that formatting and parsing  *)
(* are computed character by character; a dict is the sequence of its     *)
(* <<key, value>> items.  A call's outcome is either                      *)
(* [kind |-> "return", v |-> value] or [kind |-> "raise", exc |-> name].  *)
(* Every record is written with its fields in the order TLC keeps them    *)
(* (the order in which the names first occur in the module), the tag t    *)
(* before the payload v, so that two values of different types compare    *)
(* unequal on the tag alone.                                              *)
(***************************************************************************)
EXTENDS Integers, Sequences, FiniteSets

VARIABLES
    packet,   \* the EventPacket under test, NoneV until a constructor returns
    call,     \* the last call made: its name and its arguments
    result    \* the outcome of the last call

vars == <<packet, call, result>>

---------------------------------------------------------------------------
(* Bounds of the model.                                                   *)

\* how many of the sample timestamps are used as inputs
NumStamps == 2
\* how many of the sample zones are used as inputs
NumZones == 2

---------------------------------------------------------------------------
(* Call outcomes and Python values.                                       *)

NoneV == [t |-> "NoneType"]

Return(value) == [kind |-> "return", v |-> value]
Raise(e) == [kind |-> "raise", exc |-> e]

Str(chars) == [t |-> "str", v |-> chars]
PyInt(n) == [t |-> "int", v |-> n]
Bool(b) == [t |-> "bool", v |-> b]
Tuple(items) == [t |-> "tuple", v |-> items]
List(items) == [t |-> "list", v |-> items]
Dict(items) == [t |-> "dict", v |-> items]
Datetime(y, mo, d, h, mi, s) ==
    [t |-> "datetime",
     v |-> [year |-> y, month |-> mo, day |-> d,
            hour |-> h, minute |-> mi, second |-> s]]
\* the lazy iterator built by map(lambda date_str: strptime(...), interval)
MapStrptime(items) == [t |-> "map", v |-> items]

\* an EventPacket instance: the attributes lines 46-49 assign
EventPacket(begin, end, summary, sample_interval_utc, timezone, location) ==
    [t |-> "EventPacket",
     v |-> [begin |-> begin, end |-> end, summary |-> summary,
            sample_interval_utc |-> sample_interval_utc,
            timezone |-> timezone, location |-> location]]

isinstance(x, type) == x.t = type

---------------------------------------------------------------------------
(* Characters and decimal rendering.                                      *)

Digits == <<"0", "1", "2", "3", "4", "5", "6", "7", "8", "9">>
IsDigit(c) == \E n \in 1..10 : Digits[n] = c
DigitVal(c) == (CHOOSE n \in 1..10 : Digits[n] = c) - 1
DigitChar(n) == Digits[n + 1]

\* %m, %d, %H, %M, %S: two digits, zero padded
Pad2(n) == <<DigitChar((n \div 10) % 10), DigitChar(n % 10)>>

RECURSIVE Dec(_)
\* %Y as the C library renders it: the decimal digits of the year, unpadded
Dec(n) == IF n < 10 THEN <<DigitChar(n)>>
          ELSE Dec(n \div 10) \o <<DigitChar(n % 10)>>

RECURSIVE NumVal(_)
\* int() of a run of digits
NumVal(chars) ==
    IF chars = <<>> THEN 0
    ELSE 10 * NumVal(SubSeq(chars, 1, Len(chars) - 1))
         + DigitVal(chars[Len(chars)])

---------------------------------------------------------------------------
(* The proleptic Gregorian calendar of datetime.                          *)

IsLeap(y) == (y % 4 = 0) /\ ((y % 100 # 0) \/ (y % 400 = 0))

DaysInMonth(y, m) ==
    IF m = 2 THEN (IF IsLeap(y) THEN 29 ELSE 28)
    ELSE IF m \in {4, 6, 9, 11} THEN 30 ELSE 31

RECURSIVE DaysBeforeMonth(_, _)
DaysBeforeMonth(y, m) ==
    IF m = 1 THEN 0 ELSE DaysBeforeMonth(y, m - 1) + DaysInMonth(y, m - 1)

\* date.toordinal(): 1 for 0001-01-01
Ordinal(y, m, d) ==
    LET py == y - 1
    IN  py * 365 + (py \div 4) - (py \div 100) + (py \div 400)
        + DaysBeforeMonth(y, m) + d

\* date.weekday(): 0 for Monday ... 6 for Sunday
Weekday(y, m, d) == (Ordinal(y, m, d) + 6) % 7

\* seconds since the start of its year of a naive datetime
Seconds(dt) ==
    ((DaysBeforeMonth(dt.year, dt.month) + dt.day - 1) * 24 + dt.hour) * 3600
    + dt.minute * 60 + dt.second

\* datetime.__lt__ of two naive datetimes
Earlier(a, b) ==
    a.year < b.year \/ (a.year = b.year /\ Seconds(a) < Seconds(b))

---------------------------------------------------------------------------
(* Module constants, lines 12-15, and the default of line 23.             *)

NAME ==
    <<"J", "a", "r", "e", "d">>

\* f'{NAME}\'s Work'
GLOBAL_SUMMARY == NAME \o <<"'", "s", " ", "W", "o", "r", "k">>

DEFAULT_LOCATION ==
    <<"8", "0", "0", " ", "N", " ", "S", "t", "a", "t", "e", " ", "C",
    "o", "l", "l", "e", "g", "e", " ", "B", "l", "v", "d", ",", " ",
    "F", "u", "l", "l", "e", "r", "t", "o", "n", ",", " ", "C", "A",
    " ", "9", "2", "8", "3", "1">>

LosAngeles ==
    <<"A", "m", "e", "r", "i", "c", "a", "/", "L", "o", "s", "_", "A",
    "n", "g", "e", "l", "e", "s">>

Berlin ==
    <<"E", "u", "r", "o", "p", "e", "/", "B", "e", "r", "l", "i", "n">>

Kolkata ==
    <<"A", "s", "i", "a", "/", "K", "o", "l", "k", "a", "t", "a">>

UTC ==
    <<"U", "T", "C">>

\* sample_interval_utc = (False, "America/Los_Angeles")
DEFAULT_SAMPLE_INTERVAL_UTC == Tuple(<<Bool(FALSE), Str(LosAngeles)>>)

---------------------------------------------------------------------------
(* datetime.strftime and datetime.strptime for "%Y-%m-%dT%H:%M:%S".       *)

\* x.strftime(f"%Y-%m-%dT%H:%M:%S{tail}"): tail holds no directive
strftime(dt, tail) ==
    Dec(dt.year) \o <<"-">> \o Pad2(dt.month) \o <<"-">> \o Pad2(dt.day)
    \o <<"T">> \o Pad2(dt.hour) \o <<":">> \o Pad2(dt.minute)
    \o <<":">> \o Pad2(dt.second) \o tail

RECURSIVE DigitRun(_, _)
\* the length of the run of digits of chars that starts at position i
DigitRun(chars, i) ==
    IF i > Len(chars) \/ ~IsDigit(chars[i]) THEN 0
    ELSE 1 + DigitRun(chars, i + 1)

\* The regular expression _strptime compiles for one directive, applied to the
\* digits between two literals: %Y is \d\d\d\d, %m is 1[0-2]|0[1-9]|[1-9],
\* %d is 3[01]|[12]\d|0[1-9]|[1-9], %H is 2[0-3]|[0-1]\d|\d,
\* %M is [0-5]\d|\d, %S is 6[0-1]|[0-5]\d|\d.
FieldMatches(directive, digits) ==
    LET n == Len(digits)
        val == NumVal(digits)
    IN  CASE directive = "Y" -> n = 4
          [] directive = "m" -> (n = 2 /\ val \in 1..12) \/ (n = 1 /\ val \in 1..9)
          [] directive = "d" -> (n = 2 /\ val \in 1..31) \/ (n = 1 /\ val \in 1..9)
          [] directive = "H" -> (n = 2 /\ val \in 0..23) \/ n = 1
          [] directive = "M" -> (n = 2 /\ val \in 0..59) \/ n = 1
          [] directive = "S" -> (n = 2 /\ val \in 0..61) \/ n = 1

\* the literal between two directives; the expression is compiled with
\* re.IGNORECASE, so the literal T also matches t
LiteralMatches(lit, c) == c = lit \/ (lit = "T" /\ c = "t")

StrptimeDirectives == <<"Y", "m", "d", "H", "M", "S">>
StrptimeLiterals == <<"-", "-", "T", ":", ":">>

RECURSIVE MatchFields(_, _, _)
\* Matches directive k onwards against chars from position i: the sequence of
\* the fields' values, or <<>> when the expression does not match the whole
\* string ("does not match format" or "unconverted data remains").
MatchFields(chars, i, k) ==
    LET n == DigitRun(chars, i)
        digits == SubSeq(chars, i, i + n - 1)
        j == i + n
    IN  IF ~FieldMatches(StrptimeDirectives[k], digits) THEN <<>>
        ELSE IF k = 6
             THEN (IF j = Len(chars) + 1 THEN <<NumVal(digits)>> ELSE <<>>)
        ELSE IF j > Len(chars) \/ ~LiteralMatches(StrptimeLiterals[k], chars[j])
             THEN <<>>
        ELSE LET rest == MatchFields(chars, j + 1, k + 1)
             IN  IF rest = <<>> THEN <<>> ELSE <<NumVal(digits)>> \o rest

\* datetime.datetime.strptime(date_str, "%Y-%m-%dT%H:%M:%S")
strptime(date_str) ==
    IF ~isinstance(date_str, "str") THEN Raise("TypeError")
    ELSE LET f == MatchFields(date_str.v, 1, 1)
         IN  IF f = <<>> THEN Raise("ValueError")
             ELSE IF f[1] < 1 \/ f[3] > DaysInMonth(f[1], f[2]) \/ f[6] > 59
                  THEN Raise("ValueError")
             ELSE Return(Datetime(f[1], f[2], f[3], f[4], f[5], f[6]))

---------------------------------------------------------------------------
(* pytz: the zones of the model and the offset localize() attaches.       *)

\* the day of month of the n-th Sunday of month m
NthSunday(y, m, n) == 1 + ((6 - Weekday(y, m, 1)) % 7) + 7 * (n - 1)

\* the day of month of the last Sunday of month m
LastSunday(y, m) ==
    DaysInMonth(y, m) - ((Weekday(y, m, DaysInMonth(y, m)) + 1) % 7)

WallClock(y, m, d, h) ==
    [year |-> y, month |-> m, day |-> d, hour |-> h, minute |-> 0, second |-> 0]

\* Whether localize(dt), with its default is_dst=False, puts the wall time dt
\* in daylight-saving time: a wall time the spring transition skips or the
\* autumn transition repeats is taken as standard time.
InDst(zone, dt) ==
    LET y == dt.year
    IN  CASE zone = LosAngeles ->
                /\ Seconds(dt) >= Seconds(WallClock(y, 3, NthSunday(y, 3, 2), 3))
                /\ Seconds(dt) < Seconds(WallClock(y, 11, NthSunday(y, 11, 1), 1))
          [] zone = Berlin ->
                /\ Seconds(dt) >= Seconds(WallClock(y, 3, LastSunday(y, 3), 3))
                /\ Seconds(dt) < Seconds(WallClock(y, 10, LastSunday(y, 10), 2))
          [] OTHER -> FALSE

\* the zones pytz.timezone() knows, as far as the model goes
IsKnownZone(zone) ==
    zone = LosAngeles \/ zone = Berlin \/ zone = UTC \/ zone = Kolkata

\* the zone's standard offset from UTC, in minutes
StandardOffset(zone) ==
    CASE zone = LosAngeles -> -480
      [] zone = Berlin -> 60
      [] zone = Kolkata -> 330
      [] zone = UTC -> 0

\* utcoffset() of pytz.timezone(zone).localize(dt), in minutes
UtcOffsetMinutes(zone, dt) ==
    StandardOffset(zone) + (IF InDst(zone, dt) THEN 60 ELSE 0)

\* strftime('%z') of an aware datetime: sign, hours, minutes
FormatZ(minutes) ==
    LET a == IF minutes < 0 THEN -minutes ELSE minutes
    IN  <<IF minutes < 0 THEN "-" ELSE "+">> \o Pad2(a \div 60) \o Pad2(a % 60)

\* pytz.timezone(self.timezone).localize(time_object).strftime('%z')
LocalizedZ(timezone, time_object) ==
    IF ~isinstance(timezone, "str") THEN Raise("AttributeError")
    ELSE IF ~IsKnownZone(timezone.v) THEN Raise("UnknownTimeZoneError")
    ELSE IF ~isinstance(time_object, "datetime") THEN Raise("AttributeError")
    ELSE Return(Str(FormatZ(UtcOffsetMinutes(timezone.v, time_object.v))))

---------------------------------------------------------------------------
(* Language primitives the methods use.                                   *)

\* obj.name where obj is an EventPacket: the instance attributes are those
\* __init__ assigned, the class defines no data attribute
getattr(obj, name) ==
    IF name \in DOMAIN obj.v THEN Return(obj.v[name])
    ELSE Raise("AttributeError")

\* the keys of a dict
Keys(d) == {d.v[k][1] : k \in 1..Len(d.v)}

\* x[key] where key is a string
getitem(x, key) ==
    IF ~isinstance(x, "dict") THEN Raise("TypeError")
    ELSE IF key \in Keys(x)
         THEN Return(x.v[CHOOSE k \in 1..Len(x.v) : x.v[k][1] = key][2])
    ELSE Raise("KeyError")

\* x[i] where i is an integer, counted from 0
getindex(x, i) ==
    IF x.t \notin {"tuple", "list", "str"} THEN Raise("TypeError")
    ELSE IF i + 1 \in 1..Len(x.v)
         THEN Return(IF x.t = "str" THEN Str(<<x.v[i + 1]>>) ELSE x.v[i + 1])
    ELSE Raise("IndexError")

\* the items iter(x) yields, as far as x is eagerly known
Items(x) ==
    IF x.t = "str" THEN [k \in 1..Len(x.v) |-> Str(<<x.v[k]>>)] ELSE x.v

\* map(lambda date_str: strptime(date_str, ...), interval): map() takes the
\* iterator of its argument at once and applies the function lazily
map_strptime(interval) ==
    IF interval.t \in {"tuple", "list", "str"}
    THEN Return(MapStrptime(Items(interval)))
    ELSE Raise("TypeError")

\* "a, b = x": two values are drawn from x, then a third draw must find x
\* exhausted; the items of a map are computed as they are drawn
unpack2(x) ==
    CASE x.t \in {"tuple", "list", "str"} ->
            IF Len(x.v) = 2 THEN Return(Items(x)) ELSE Raise("ValueError")
      [] x.t = "map" ->
            LET drawn == [k \in 1..(IF Len(x.v) < 3 THEN Len(x.v) ELSE 3) |->
                            strptime(x.v[k])]
                failed == {k \in DOMAIN drawn : drawn[k].kind = "raise"}
            IN  IF failed # {}
                THEN drawn[CHOOSE k \in failed : \A j \in failed : k <= j]
                ELSE IF Len(x.v) = 2 THEN Return(<<drawn[1].v, drawn[2].v>>)
                ELSE Raise("ValueError")
      [] OTHER -> Raise("TypeError")

---------------------------------------------------------------------------
(* class EventPacket.                                                     *)

\* EventPacket.__init__, lines 20-49
__init__(interval, summary, sample_interval_utc, location) ==
    IF ~(isinstance(interval, "tuple") \/ isinstance(summary, "str"))
    THEN Raise("ValueError")
    ELSE LET i == unpack2(interval)
             u == unpack2(sample_interval_utc)
         IN  IF i.kind = "raise" THEN i
             ELSE IF u.kind = "raise" THEN u
             ELSE Return(EventPacket(i.v[1], i.v[2], summary,
                                     u.v[1], u.v[2], location))

\* EventPacket.from_string, lines 51-71
from_string(interval, summary) ==
    IF ~(isinstance(interval, "tuple") \/ isinstance(summary, "str"))
    THEN Raise("ValueError")
    ELSE LET m == map_strptime(interval)
         IN  IF m.kind = "raise" THEN m
             ELSE __init__(m.v, summary, DEFAULT_SAMPLE_INTERVAL_UTC,
                           Str(DEFAULT_LOCATION))

\* a call EventPacket.from_string(*args): the positional arguments are bound
\* to the parameters (interval, summary) before the body runs
call_from_string(positional) ==
    IF Len(positional) # 2 THEN Raise("TypeError")
    ELSE from_string(positional[1], positional[2])

\* from_dict, if it handed the mapping's other keys on instead of dropping them
from_dict_keeping_location(body) ==
    IF ~isinstance(body, "dict") THEN Raise("ValueError")
    ELSE LET start == getitem(body, "start")
             end == getitem(body, "end")
             summary == getitem(body, "summary")
             made == call_from_string(<<Tuple(<<start.v, end.v>>), summary.v>>)
         IN  IF start.kind = "raise" THEN start
             ELSE IF end.kind = "raise" THEN end
             ELSE IF summary.kind = "raise" THEN summary
             ELSE IF made.kind = "return" /\ "location" \in Keys(body)
                  THEN Return([made.v EXCEPT
                                 !.v.location = getitem(body, "location").v])
             ELSE made

\* EventPacket.from_dict, lines 73-89
from_dict(body) ==
    IF ~isinstance(body, "dict") THEN Raise("ValueError")
    ELSE LET start == getitem(body, "start")
             end == getitem(body, "end")
             summary == getitem(body, "summary")
         IN  IF start.kind = "raise" THEN start
             ELSE IF end.kind = "raise" THEN end
             ELSE IF summary.kind = "raise" THEN summary
             ELSE call_from_string(<<Tuple(<<start.v, end.v>>), summary.v>>)

\* response[outer][inner]
getitem2(response, outer, inner) ==
    LET o == getitem(response, outer)
    IN  IF o.kind = "raise" THEN o ELSE getitem(o.v, inner)

\* EventPacket.from_freebusy, lines 91-105
from_freebusy(response) ==
    LET start == getitem2(response, "start", "dateTime")
        end == getitem2(response, "end", "dateTime")
        summary == getitem(response, "summary")
    IN  IF start.kind = "raise" THEN start
        ELSE IF end.kind = "raise" THEN end
        ELSE IF summary.kind = "raise" THEN summary
        ELSE call_from_string(<<start.v, end.v, summary.v>>)

\* __eq__, if it compared the location as well
eq_with_location(self, rhs) ==
    IF ~isinstance(rhs, "EventPacket") THEN Raise("ValueError")
    ELSE Return(Bool(/\ <<self.v.begin, self.v.end>> = <<rhs.v.begin, rhs.v.end>>
                     /\ self.v.summary = rhs.v.summary
                     /\ self.v.location = rhs.v.location))

\* __eq__, if it answered False for a value of another type instead of raising
eq_false_for_other_types(self, rhs) ==
    IF ~isinstance(rhs, "EventPacket") THEN Return(Bool(FALSE))
    ELSE Return(Bool(/\ <<self.v.begin, self.v.end>> = <<rhs.v.begin, rhs.v.end>>
                     /\ self.v.summary = rhs.v.summary))

\* EventPacket.__eq__, lines 107-124
__eq__(self, rhs) ==
    IF ~isinstance(rhs, "EventPacket") THEN Raise("ValueError")
    ELSE Return(Bool(/\ <<self.v.begin, self.v.end>> = <<rhs.v.begin, rhs.v.end>>
                     /\ self.v.summary = rhs.v.summary))

\* __lt__, if it ran the comparison line 142 keeps in a comment: begin before
\* begin and end before end
lt_componentwise(self, rhs) ==
    IF ~isinstance(rhs, "EventPacket") THEN Raise("ValueError")
    ELSE Return(Bool(/\ Earlier(self.v.begin.v, rhs.v.begin.v)
                     /\ Earlier(self.v.end.v, rhs.v.end.v)))

\* EventPacket.__lt__, lines 126-142
__lt__(self, rhs) ==
    IF ~isinstance(rhs, "EventPacket") THEN Raise("ValueError")
    ELSE Return(Bool(FALSE))

\* _expression.match(current_offset) for "(\-\d{2})(\d{2})": the two groups,
\* or <<>> when the expression does not match at the start of the string
OffsetGroups(chars) ==
    IF /\ Len(chars) >= 5
       /\ chars[1] = "-"
       /\ \A k \in 2..5 : IsDigit(chars[k])
    THEN <<SubSeq(chars, 1, 3), SubSeq(chars, 4, 5)>>
    ELSE <<>>

\* EventPacket.utc_offset, lines 182-201
utc_offset(self, time_object) ==
    LET current_offset == LocalizedZ(self.v.timezone, time_object)
    IN  IF current_offset.kind = "raise" THEN current_offset
        ELSE LET groups == OffsetGroups(current_offset.v.v)
             IN  IF groups = <<>> THEN Raise("ValueError")
                 ELSE Return(Str(groups[1] \o <<":">> \o groups[2]))

\* x.strftime(...) of line 178 for one element of (self.begin, self.end)
FormatOne(x, current_offset) ==
    IF isinstance(x, "datetime") THEN Return(Str(strftime(x.v, current_offset.v)))
    ELSE Raise("AttributeError")

\* EventPacket.google_calendar_format, lines 170-180
google_calendar_format(self) ==
    LET interval == getattr(self, "interval")
    IN  IF interval.kind = "raise" THEN interval
        ELSE LET first == getindex(interval.v, 0)
             IN  IF first.kind = "raise" THEN first
                 ELSE LET current_offset == utc_offset(self, first.v)
                          b == FormatOne(self.v.begin, current_offset.v)
                          e == FormatOne(self.v.end, current_offset.v)
                      IN  IF current_offset.kind = "raise" THEN current_offset
                          ELSE IF b.kind = "raise" THEN b
                          ELSE IF e.kind = "raise" THEN e
                          ELSE Return(List(<<b.v, e.v>>))

\* json.dumps(collections.OrderedDict(body), indent=4): the document, kept as
\* its members in the order they are written
json_dumps(body) == [t |-> "json", v |-> body]

\* EventPacket.form_submit_body, lines 214-227
form_submit_body(self) ==
    LET g == [k \in 0..1 |-> google_calendar_format(self)]
    IN  IF g[0].kind = "raise" THEN g[0]
        ELSE IF g[1].kind = "raise" THEN g[1]
        ELSE Return(json_dumps(
                <<<<"summary", self.v.summary>>,
                  <<"start", <<<<"dateTime", g[0].v.v[1]>>,
                               <<"timeZone", self.v.timezone>>>>>>,
                  <<"end", <<<<"dateTime", g[1].v.v[2]>>,
                             <<"timeZone", self.v.timezone>>>>>>,
                  <<"location", self.v.location>>>>))

---------------------------------------------------------------------------
(* The inputs the calls are made with.                                    *)

SampleStamps ==
    <<Datetime(2019, 7, 14, 15, 0, 0),
      Datetime(2019, 12, 2, 8, 5, 9),
      Datetime(2020, 3, 8, 2, 30, 0),
      Datetime(2019, 7, 14, 23, 30, 0)>>

SampleZones == <<LosAngeles, Berlin, UTC, Kolkata>>

Stamps == {SampleStamps[k] : k \in 1..NumStamps}
Zones == {SampleZones[k] : k \in 1..NumZones}

Summaries == {Str(GLOBAL_SUMMARY), Str(<<"X">>), PyInt(42)}
Locations == {Str(DEFAULT_LOCATION), Str(<<"H", "Q">>)}

SampleIntervalUtcs ==
    {Tuple(<<Bool(FALSE), Str(z)>>) : z \in Zones}
    \cup {Tuple(<<Bool(TRUE), Str(LosAngeles)>>)}

\* pairs of timestamps, and intervals that are no pair of a tuple
GoodIntervals == {Tuple(<<b, e>>) : b \in Stamps, e \in Stamps}
BadIntervals ==
    {List(<<SampleStamps[1], SampleStamps[2]>>),
     PyInt(5),
     Tuple(<<SampleStamps[1], SampleStamps[1], SampleStamps[2]>>)}

\* date strings: the sample timestamps as YYYY-MM-DDTHH:MM:SS, the first of
\* them without padding and with a small t, one with an offset suffix, and a
\* day its month does not have
DateStrings ==
    {Str(strftime(d.v, <<>>)) : d \in Stamps}
    \cup {Str(<<"2", "0", "1", "9", "-", "7", "-", "1", "4", "t",
               "1", "5", ":", "0", ":", "0">>),
          Str(strftime(SampleStamps[1].v, <<"-", "0", "7", ":", "0", "0">>)),
          Str(<<"2", "0", "1", "9", "-", "0", "2", "-", "3", "0", "T",
               "1", "0", ":", "0", "0", ":", "0", "0">>)}

StringIntervals ==
    {Tuple(<<a, b>>) : a \in DateStrings, b \in DateStrings}
    \cup {PyInt(5), List(<<Str(strftime(SampleStamps[1].v, <<>>)),
                          Str(strftime(SampleStamps[2].v, <<>>))>>)}

\* flat mappings, with and without a key the constructor does not read
FlatBodies ==
    {Dict(<<<<"start", a>>, <<"end", b>>, <<"summary", t>>>>) :
        a \in DateStrings, b \in DateStrings, t \in Summaries}
    \cup {Dict(<<<<"start", a>>, <<"end", b>>, <<"summary", t>>,
                 <<"location", Str(<<"H", "Q">>)>>>>) :
        a \in DateStrings, b \in DateStrings, t \in Summaries}
    \cup {List(<<>>),
          Dict(<<<<"start", Str(<<"X">>)>>, <<"end", Str(<<"X">>)>>>>)}

\* free/busy responses
FreebusyResponses ==
    {Dict(<<<<"start", Dict(<<<<"dateTime", a>>>>)>>,
            <<"end", Dict(<<<<"dateTime", b>>>>)>>,
            <<"summary", t>>>>) :
        a \in DateStrings, b \in DateStrings, t \in Summaries}
    \cup {Dict(<<<<"start", Str(<<"X">>)>>, <<"end", Str(<<"X">>)>>,
                 <<"summary", Str(<<"X">>)>>>>)}

\* right-hand sides of a comparison: the packets made from the given
\* intervals, and values that are no packet
Comparands(intervals) ==
    {__init__(i, t, u, l).v :
        i \in intervals, t \in {Str(GLOBAL_SUMMARY), Str(<<"X">>)},
        u \in {DEFAULT_SAMPLE_INTERVAL_UTC,
               Tuple(<<Bool(TRUE), Str(Berlin)>>)},
        l \in Locations}
    \cup {NoneV, PyInt(5), Str(<<"X">>),
          Dict(<<<<"start", Str(<<"X">>)>>, <<"end", Str(<<"X">>)>>,
                 <<"summary", Str(<<"X">>)>>>>)}

---------------------------------------------------------------------------
(* The state machine: one packet is constructed, then it is queried.      *)

NoCall == [op |-> "none", args |-> <<>>]

Init ==
    /\ packet = NoneV
    /\ call = NoCall
    /\ result = Return(NoneV)

\* the packet a constructor call binds: none when the call raises
Bound(outcome) == IF outcome.kind = "return" THEN outcome.v ELSE NoneV

\* a constructor call: made while no packet is bound, it records the call and
\* its outcome and binds the packet it returns
Constructed(op, args, outcome) ==
    /\ packet = NoneV
    /\ call' = [op |-> op, args |-> args]
    /\ result' = outcome
    /\ packet' = Bound(outcome)

\* a call of a method of the bound packet: it records the call and its
\* outcome and leaves the packet as it is (no method assigns an attribute)
Queried(op, args, outcome) ==
    /\ packet # NoneV
    /\ call' = [op |-> op, args |-> args]
    /\ result' = outcome
    /\ UNCHANGED packet

Construct ==
    \E i \in GoodIntervals \cup BadIntervals, t \in Summaries,
       u \in SampleIntervalUtcs, l \in Locations :
        Constructed("__init__", <<i, t, u, l>>, __init__(i, t, u, l))

FromString ==
    \E i \in StringIntervals, t \in Summaries :
        Constructed("from_string", <<i, t>>, call_from_string(<<i, t>>))

FromDict ==
    \E body \in FlatBodies :
        Constructed("from_dict", <<body>>, from_dict(body))

FromFreebusy ==
    \E response \in FreebusyResponses :
        Constructed("from_freebusy", <<response>>, from_freebusy(response))

Eq ==
    \E rhs \in Comparands(GoodIntervals) :
        Queried("__eq__", <<rhs>>, __eq__(packet, rhs))

Lt ==
    \E rhs \in Comparands(GoodIntervals) :
        Queried("__lt__", <<rhs>>, __lt__(packet, rhs))

UtcOffset ==
    \E time_object \in Stamps :
        Queried("utc_offset", <<time_object>>, utc_offset(packet, time_object))

GoogleCalendarFormat ==
    Queried("google_calendar_format", <<>>, google_calendar_format(packet))

FormSubmitBody ==
    Queried("form_submit_body", <<>>, form_submit_body(packet))

Next ==
    \/ Construct
    \/ FromString
    \/ FromDict
    \/ FromFreebusy
    \/ Eq
    \/ Lt
    \/ UtcOffset
    \/ GoogleCalendarFormat
    \/ FormSubmitBody

Spec == Init /\ [][Next]_vars

---------------------------------------------------------------------------
(* The properties.                                                        *)

\* a 2-tuple interval and a text summary: the arguments __init__ is to accept
WellFormed(interval, summary) ==
    /\ isinstance(interval, "tuple")
    /\ Len(interval.v) = 2
    /\ isinstance(summary, "str")

\* the offset of a zone on a date in the wire form: sign, HH, a colon, MM
WireOffset(zone, dt) ==
    LET minutes == UtcOffsetMinutes(zone, dt)
        a == IF minutes < 0 THEN -minutes ELSE minutes
    IN  <<IF minutes < 0 THEN "-" ELSE "+">> \o Pad2(a \div 60) \o <<":">>
        \o Pad2(a % 60)

\* the two strings the wire format of a packet is to hold: begin and end as
\* YYYY-MM-DDTHH:MM:SS, both with the offset of begin
WirePair(p) ==
    LET offset == WireOffset(p.timezone.v, p.begin.v)
    IN  <<Str(strftime(p.begin.v, offset)), Str(strftime(p.end.v, offset))>>

\* a wire string without its offset suffix: its first 19 characters
StripOffset(s) == Str(SubSeq(s.v, 1, 19))

\* C1: __init__ returns an EventPacket only when the interval is a 2-tuple and
\* the summary is text, and raises in each of the three other combinations.
C1_InitRejectsMalformed ==
    call.op = "__init__" =>
        IF WellFormed(call.args[1], call.args[2])
        THEN result.kind = "return" /\ isinstance(result.v, "EventPacket")
        ELSE result.kind = "raise"

\* C2: a == b is True exactly when begin, end and summary are equal, whatever
\* the timezone, the same-zone flag and the location of the two packets.
C2_EqualityIffBeginEndSummary ==
    (call.op = "__eq__" /\ isinstance(call.args[1], "EventPacket")) =>
        LET a == packet.v
            b == call.args[1].v
        IN  result = Return(Bool(/\ a.begin = b.begin
                                 /\ a.end = b.end
                                 /\ a.summary = b.summary))

\* two packets that differ in timezone, flag and location have compared equal
C2_Witness ==
    /\ call.op = "__eq__"
    /\ isinstance(call.args[1], "EventPacket")
    /\ packet.v.timezone # call.args[1].v.timezone
    /\ packet.v.sample_interval_utc # call.args[1].v.sample_interval_utc
    /\ packet.v.location # call.args[1].v.location
    /\ result = Return(Bool(TRUE))

\* C3: == and < against a value that is no EventPacket raise, and return no
\* boolean.
C3_NonPacketComparisonRaises ==
    (call.op \in {"__eq__", "__lt__"} /\ ~isinstance(call.args[1], "EventPacket"))
        => result = Raise("ValueError")

\* a packet has been compared for equality with a plain mapping
C3_Witness ==
    /\ call.op = "__eq__"
    /\ isinstance(call.args[1], "dict")
    /\ result.kind = "raise"

C6_FreebusyAsFromString ==
    (/\ call.op = "from_freebusy"
     /\ getitem2(call.args[1], "start", "dateTime").kind = "return"
     /\ getitem2(call.args[1], "end", "dateTime").kind = "return"
     /\ getitem(call.args[1], "summary").kind = "return") =>
        LET s1 == getitem2(call.args[1], "start", "dateTime").v
            s2 == getitem2(call.args[1], "end", "dateTime").v
            t == getitem(call.args[1], "summary").v
        IN  (/\ strptime(s1).kind = "return"
             /\ strptime(s2).kind = "return"
             /\ isinstance(t, "str")) =>
                /\ result = from_string(Tuple(<<s1, s2>>), t)
                /\ result.kind = "return"
                /\ result.v.v.begin = strptime(s1).v
                /\ result.v.v.end = strptime(s2).v
                /\ result.v.v.summary = t

\* C7: utc_offset returns the offset the packet's zone has on the date of the
\* timestamp, as sign, HH, colon, MM, for zones east of UTC as for zones west.
C7_OffsetForEveryZone ==
    call.op = "utc_offset" =>
        result = Return(Str(WireOffset(packet.v.timezone.v, call.args[1].v)))

\* C8: google_calendar_format returns exactly two strings, begin and end as
\* YYYY-MM-DDTHH:MM:SS, both suffixed with the offset resolved for begin.
C8_PairSharesBeginOffset ==
    call.op = "google_calendar_format" =>
        result = Return(List(WirePair(packet.v)))

\* C9: the submission body has the members summary, start, end, location in
\* that order, start and end each holding the formatted string and the zone.
C9_SubmitBodyMembers ==
    call.op = "form_submit_body" =>
        /\ result.kind = "return"
        /\ result.v.v =
            <<<<"summary", packet.v.summary>>,
              <<"start", <<<<"dateTime", WirePair(packet.v)[1]>>,
                           <<"timeZone", packet.v.timezone>>>>>>,
              <<"end", <<<<"dateTime", WirePair(packet.v)[2]>>,
                         <<"timeZone", packet.v.timezone>>>>>>,
              <<"location", packet.v.location>>>>

\* C10: the dateTime strings of the submission body, their offset stripped,
\* give through from_string a packet with the original begin and end.
C10_BodyRoundTrip ==
    call.op = "form_submit_body" =>
        /\ result.kind = "return"
        /\ LET back == from_string(
                         Tuple(<<StripOffset(result.v.v[2][2][1][2]),
                                 StripOffset(result.v.v[3][2][1][2])>>),
                         Str(GLOBAL_SUMMARY))
           IN  /\ back.kind = "return"
               /\ back.v.v.begin = packet.v.begin
               /\ back.v.v.end = packet.v.end

=============================================================================
